---- MODULE Spec2Model ----
(***************************************************************************)
(* Model of the two deployment scripts                                     *)
(*   06_gpu_and_ml/embeddings/text_embeddings_inference.py   (TEI)         *)
(*   06_gpu_and_ml/text_generation_inference.py              (TGI)         *)
(* Each script spawns an inference-server subprocess, polls its port until *)
(* it accepts connections, proxies requests to it, and terminates it when  *)
(* the container is torn down.                                             *)
(***************************************************************************)
EXTENDS Integers, Sequences, FiniteSets, TLC

\* ------------------------------------------------------------------ bounds
MaxData == 4        \* longest dataset read by embed_dataset
MaxBatch == 3       \* largest batch size tried for BATCH_SIZE
MaxTokens == 3      \* longest raw upstream token stream
MaxCode == 1        \* largest exit code of the subprocess
MaxExitCalls == 2   \* how many times __exit__ is invoked at most
MaxProbes == 3      \* the probe counter saturates here

VARIABLES
    kind,           \* which entry point runs: "tei" | "tei_build" | "tgi"
    gate,           \* position in the launcher / polling loop
    proc,           \* the subprocess: "none" | "running" | "exited"
    exitCode,       \* its exit code once exited
    portOpen,       \* does 127.0.0.1:8000 accept connections
    handle,         \* lifecycle state of the server handle
    raisedCode,     \* code carried by the RuntimeError of the gate
    phase,          \* container lifecycle
    owned,          \* self.process / self.launcher holds the Popen object
    sigSent,        \* signals sent to the subprocess
    exitCalls,      \* number of __exit__ invocations
    exitError,      \* did an __exit__ invocation raise
    failedSinceExit,    \* history: failed probes made after the subprocess exited
    exitedWhileStarting,\* history: the subprocess exited before the gate returned
    portEverOpen,   \* history: the port has been connectable at some time
    readyCount,     \* history: transitions of the handle to Ready
    probesAfterReady,   \* history: TCP probes made after the handle became Ready
    lastReqHandle,  \* history: handle state when the latest upstream request was issued
    data,           \* embed_dataset: the list of (id, text) read from DATA_PATH
    batchSize,      \* BATCH_SIZE
    cursor,         \* generate_batches: items of data consumed
    batch,          \* generate_batches: the batch being filled
    yielded,        \* generate_batches: batches yielded so far
    genDone,        \* generate_batches: the generator is exhausted
    dispatched,     \* embed.map: batches handed to embed so far
    callOp,         \* method in flight: "none" | "embed" | "generate" | "generate_stream"
    callPc,         \* position inside the method
    callIds,        \* embed: ids
    callInputs,     \* embed: inputs
    posts,          \* embed: POST /embed requests sent by the current call
    callStatus,     \* embed: HTTP status of the response
    callResult,     \* value returned by the current call (<<>> if none)
    embedPayloads,  \* every payload posted to /embed, in order
    tokens,         \* generate_stream: the raw upstream token stream
    pos,            \* generate_stream: upstream tokens consumed
    delivered,      \* generate_stream: fragments yielded to the consumer
    conn,           \* generate_stream: upstream connection "none" | "open" | "closed"
    genState,       \* generation call: Idle/Pending/Streaming/Completed/Failed/Cancelled
    cancelFrom,     \* history: state a generation call was in when it was cancelled
    deliveredAtCancel,  \* history: number of fragments delivered when it was cancelled
    probes,         \* history: TCP probes made by the gate (saturating)
    exitOnDead      \* history: __exit__ ran on a subprocess that had already exited

gateVars == <<gate, proc, exitCode, portOpen, handle, raisedCode, phase, owned,
              failedSinceExit, exitedWhileStarting, portEverOpen, readyCount,
              probesAfterReady, probes>>
exitVars == <<sigSent, exitCalls, exitError, exitOnDead>>
batchVars == <<data, batchSize, cursor, batch, yielded, genDone>>
embedVars == <<callIds, callInputs, posts, callStatus, embedPayloads>>
streamVars == <<tokens, pos, delivered, conn, genState, cancelFrom, deliveredAtCancel>>
callVars == <<callOp, callPc, callResult, lastReqHandle, dispatched>>
vars == <<kind, gateVars, exitVars, batchVars, embedVars, streamVars, callVars>>

\* ------------------------------------------------------------- value sets
ExitCodes == 0..MaxCode
Kinds == {"tei", "tei_build", "tgi"}
Statuses == {200, 500}
Tokens == {[text |-> "a", special |-> FALSE],
           [text |-> "b", special |-> FALSE],
           [text |-> "</s>", special |-> TRUE]}
Questions == {"q"}

Min(a, b) == IF a < b THEN a ELSE b

\* identifiers are neither contiguous nor sorted
IdOf(i) == (i * 7) % 10
TextOf(i) == i + 100
Dataset(n) == [i \in 1..n |-> <<IdOf(i), TextOf(i)>>]
\* the embedding the server computes for a text
VecOf(t) == t + 1000

\* --------------------------------------------------- launcher and the gate
\* socket.create_connection(("127.0.0.1", 8000), timeout=1) succeeds
ConnectSucceedsAlways(open) == TRUE
ConnectSucceeds(open) == open

\* process.poll(): None while running, the exit code afterwards
Poll == IF proc = "exited" THEN [none |-> FALSE, code |-> exitCode]
        ELSE [none |-> TRUE, code |-> 0]

\* "if retcode is not None"
LauncherExitedTruthy(retcode) == ~retcode.none /\ retcode.code # 0
LauncherExited(retcode) == ~retcode.none

\* where the gate goes after a probe
AfterConnectNoReturn(ok) == IF ok THEN "connect" ELSE "poll"
AfterConnect(ok) == IF ok THEN "returned" ELSE "poll"

\* where the gate goes after the exit check of a failed probe
AfterPollGiveUp(k, exited) == IF exited THEN "raised" ELSE "returned"
AfterPoll(k, exited) ==
    IF exited THEN "raised" ELSE IF k = "tgi" THEN "sleep" ELSE "connect"

\* container lifecycle once the gate has left the loop
PhaseAfter(k, g) ==
    CASE g = "returned" /\ k = "tei_build" -> "built"
      [] g = "returned" -> "serving"
      [] g \in {"raised", "oserror"} -> "crashed"
      [] OTHER -> "entering"

\* subprocess.Popen([...] + LAUNCH_FLAGS) starts the server
Spawn ==
    /\ gate = "start"
    /\ gate' = "connect"
    /\ proc' = "running"
    /\ handle' = "Starting"
    \* Model.__enter__ stores self.launcher before polling; spawn_server keeps
    \* the Popen object in a local until it returns
    /\ owned' = (kind = "tgi")
    /\ UNCHANGED <<exitCode, portOpen, raisedCode, phase, failedSinceExit,
                   exitedWhileStarting, portEverOpen, readyCount, probesAfterReady, probes>>
    /\ UNCHANGED <<kind, exitVars, batchVars, embedVars, streamVars, callVars>>

\* subprocess.Popen raises OSError: the executable is missing
SpawnFails ==
    /\ gate = "start"
    /\ gate' = "oserror"
    /\ phase' = PhaseAfter(kind, "oserror")
    /\ UNCHANGED <<proc, exitCode, portOpen, handle, raisedCode, owned, failedSinceExit,
                   exitedWhileStarting, portEverOpen, readyCount, probesAfterReady, probes>>
    /\ UNCHANGED <<kind, exitVars, batchVars, embedVars, streamVars, callVars>>

\* one socket.create_connection attempt of the polling loop
Connect ==
    /\ gate = "connect"
    /\ LET ok == ConnectSucceeds(portOpen)
           g == AfterConnect(ok)
       IN /\ gate' = g
          /\ handle' = IF ok THEN "Ready" ELSE handle
          /\ readyCount' = IF ok THEN Min(readyCount + 1, 2) ELSE readyCount
          /\ probesAfterReady' =
                IF handle = "Ready" THEN 1 ELSE probesAfterReady
          /\ probes' = Min(probes + 1, MaxProbes)
          /\ failedSinceExit' =
                IF ~ok /\ proc = "exited" THEN Min(failedSinceExit + 1, 2)
                ELSE failedSinceExit
          /\ phase' = PhaseAfter(kind, g)
          \* self.process = spawn_server()
          /\ owned' = IF g = "returned" /\ kind = "tei" THEN TRUE ELSE owned
    /\ UNCHANGED <<proc, exitCode, portOpen, raisedCode, exitedWhileStarting,
                   portEverOpen>>
    /\ UNCHANGED <<kind, exitVars, batchVars, embedVars, streamVars, callVars>>

\* retcode = process.poll(); raise RuntimeError if the launcher has exited
PollExit ==
    /\ gate = "poll"
    /\ LET retcode == Poll
           exited == LauncherExited(retcode)
           g == AfterPoll(kind, exited)
       IN /\ gate' = g
          /\ raisedCode' = IF exited THEN retcode.code ELSE raisedCode
          /\ handle' = IF exited THEN "Failed" ELSE handle
          /\ phase' = PhaseAfter(kind, g)
          /\ owned' = IF g = "returned" /\ kind = "tei" THEN TRUE ELSE owned
    /\ UNCHANGED <<proc, exitCode, portOpen, failedSinceExit, exitedWhileStarting,
                   portEverOpen, readyCount, probesAfterReady, probes>>
    /\ UNCHANGED <<kind, exitVars, batchVars, embedVars, streamVars, callVars>>

\* time.sleep(1.0) between probes of Model.__enter__
Sleep ==
    /\ gate = "sleep"
    /\ gate' = "connect"
    /\ UNCHANGED <<proc, exitCode, portOpen, handle, raisedCode, phase, owned,
                   failedSinceExit, exitedWhileStarting, portEverOpen, readyCount,
                   probesAfterReady, probes>>
    /\ UNCHANGED <<kind, exitVars, batchVars, embedVars, streamVars, callVars>>

\* ----------------------------------------------------------- the subprocess
\* the server binds its port
PortOpens ==
    /\ proc = "running"
    /\ ~portOpen
    /\ portOpen' = TRUE
    /\ portEverOpen' = TRUE
    /\ UNCHANGED <<gate, proc, exitCode, handle, raisedCode, phase, owned,
                   failedSinceExit, exitedWhileStarting, readyCount, probesAfterReady, probes>>
    /\ UNCHANGED <<kind, exitVars, batchVars, embedVars, streamVars, callVars>>

\* the subprocess exits, by itself or after a signal
ProcExits ==
    /\ proc = "running"
    /\ \E e \in ExitCodes : exitCode' = e
    /\ proc' = "exited"
    /\ portOpen' = FALSE
    /\ exitedWhileStarting' = (exitedWhileStarting \/ handle = "Starting")
    /\ UNCHANGED <<gate, handle, raisedCode, phase, owned, failedSinceExit,
                   portEverOpen, readyCount, probesAfterReady, probes>>
    /\ UNCHANGED <<kind, exitVars, batchVars, embedVars, streamVars, callVars>>

\* ------------------------------------------------------- the lifecycle hook
\* the signal Popen.terminate() sends
ExitSignalKill == "SIGKILL"
ExitSignal == "SIGTERM"

\* __exit__: self.process.terminate() / self.launcher.terminate().
\* The platform runs it at container teardown, once the inputs have drained;
\* Popen.terminate() does nothing when the subprocess has already been reaped.
Exit ==
    /\ kind \in {"tei", "tgi"}
    /\ phase \in {"serving", "exited"}
    /\ callOp = "none"
    /\ exitCalls < MaxExitCalls
    /\ exitCalls' = exitCalls + 1
    /\ exitError' = (exitError \/ ~owned)
    /\ exitOnDead' = (exitOnDead \/ proc = "exited")
    /\ sigSent' = IF owned /\ proc = "running" THEN sigSent \cup {ExitSignal} ELSE sigSent
    /\ handle' = "Terminated"
    /\ phase' = "exited"
    /\ UNCHANGED <<gate, proc, exitCode, portOpen, raisedCode, owned, failedSinceExit,
                   exitedWhileStarting, portEverOpen, readyCount, probesAfterReady, probes>>
    /\ UNCHANGED <<kind, batchVars, embedVars, streamVars, callVars>>

\* ------------------------------------------------ embed_dataset: batching
\* one iteration of "for item in data" in generate_batches
BatchAppend ==
    /\ kind = "tei"
    /\ ~genDone
    /\ cursor < Len(data)
    /\ cursor' = cursor + 1
    /\ LET b == Append(batch, data[cursor + 1])
       IN IF Len(b) = batchSize
          THEN yielded' = Append(yielded, b) /\ batch' = <<>>
          ELSE yielded' = yielded /\ batch' = b
    /\ UNCHANGED <<data, batchSize, genDone>>
    /\ UNCHANGED <<kind, gateVars, exitVars, embedVars, streamVars, callVars>>

\* the for loop of generate_batches is over: the generator returns
BatchEnd ==
    /\ kind = "tei"
    /\ ~genDone
    /\ cursor = Len(data)
    /\ genDone' = TRUE
    /\ UNCHANGED <<data, batchSize, cursor, batch, yielded>>
    /\ UNCHANGED <<kind, gateVars, exitVars, embedVars, streamVars, callVars>>

\* -------------------------------------------- TextEmbeddingsInference.embed
\* the platform accepts inputs only between __enter__ and __exit__
InputsAccepted == phase = "serving" /\ callOp = "none"

\* resp.raise_for_status()
RaisesForStatus(status) == status >= 400

\* where embed goes once the response is in
AfterStatusRetry(raises) == IF raises THEN "post" ELSE "returned"
AfterStatus(raises) == IF raises THEN "failed" ELSE "returned"

\* zip(ids, outputs)
Zip(ids, outputs) == [i \in 1..Min(Len(ids), Len(outputs)) |-> <<ids[i], outputs[i]>>]

\* embed.map hands the next batch to embed; ids, inputs = zip(*inputs_with_ids)
EmbedStart ==
    /\ kind = "tei"
    /\ InputsAccepted
    /\ dispatched < Len(yielded)
    /\ LET b == yielded[dispatched + 1]
       IN /\ callIds' = [i \in 1..Len(b) |-> b[i][1]]
          /\ callInputs' = [i \in 1..Len(b) |-> b[i][2]]
    /\ dispatched' = dispatched + 1
    /\ callOp' = "embed"
    /\ callPc' = "post"
    /\ posts' = 0
    /\ callStatus' = 0
    /\ callResult' = <<>>
    /\ UNCHANGED <<embedPayloads, lastReqHandle>>
    /\ UNCHANGED <<kind, gateVars, exitVars, batchVars, streamVars>>

\* resp = self.client.post("/embed", json={"inputs": inputs}); await resp
EmbedPost ==
    /\ callOp = "embed"
    /\ callPc = "post"
    /\ posts' = posts + 1
    /\ embedPayloads' = Append(embedPayloads, callInputs)
    /\ lastReqHandle' = handle
    /\ callPc' = "await"
    /\ UNCHANGED <<callIds, callInputs, callStatus, callOp, callResult, dispatched>>
    /\ UNCHANGED <<kind, gateVars, exitVars, batchVars, streamVars>>

\* the response arrives; raise_for_status(); np.array(zip(ids, outputs))
EmbedResponse ==
    /\ callOp = "embed"
    /\ callPc = "await"
    /\ proc = "running" /\ portOpen
    /\ \E status \in Statuses :
         LET pc == AfterStatus(RaisesForStatus(status))
         IN /\ callStatus' = status
            /\ callPc' = pc
            /\ callResult' = IF pc = "returned"
                             THEN Zip(callIds, [i \in 1..Len(callInputs) |->
                                                    VecOf(callInputs[i])])
                             ELSE <<>>
    /\ UNCHANGED <<callIds, callInputs, posts, embedPayloads, callOp, lastReqHandle,
                   dispatched>>
    /\ UNCHANGED <<kind, gateVars, exitVars, batchVars, streamVars>>

\* the server is gone: the awaited request raises a connection error
EmbedConnectError ==
    /\ callOp = "embed"
    /\ callPc = "await"
    /\ proc # "running"
    /\ callPc' = "failed"
    /\ UNCHANGED <<callIds, callInputs, posts, callStatus, embedPayloads, callOp,
                   callResult, lastReqHandle, dispatched>>
    /\ UNCHANGED <<kind, gateVars, exitVars, batchVars, streamVars>>

\* ------------------------------------------------------------ Model.generate
\* self.template.format(system="", user=question)
Template(question) == [system |-> "", user |-> question]

\* prompt = ...; result = await self.client.generate(prompt, max_new_tokens=1024)
GenerateStart ==
    /\ kind = "tgi"
    /\ InputsAccepted
    /\ callOp' = "generate"
    /\ callPc' = "await"
    /\ callResult' = <<>>
    /\ lastReqHandle' = handle
    /\ UNCHANGED dispatched
    /\ UNCHANGED <<kind, gateVars, exitVars, batchVars, embedVars, streamVars>>

\* return result.generated_text, or the client raises
GenerateResponse ==
    /\ callOp = "generate"
    /\ callPc = "await"
    /\ \/ /\ proc = "running" /\ portOpen
          /\ \E q \in Questions :
                callResult' = <<[text |-> "generated", prompt |-> Template(q)]>>
          /\ callPc' = "returned"
       \/ /\ callPc' = "failed"
          /\ callResult' = <<>>
    /\ UNCHANGED <<callOp, lastReqHandle, dispatched>>
    /\ UNCHANGED <<kind, gateVars, exitVars, batchVars, embedVars, streamVars>>

\* ----------------------------------------------------- Model.generate_stream
\* "if not response.token.special"
DeliversAll(tok) == TRUE
Delivers(tok) == ~tok.special

RECURSIVE SeqsUpTo(_)
SeqsUpTo(n) ==
    IF n = 0 THEN {<<>>}
    ELSE LET shorter == SeqsUpTo(n - 1)
         IN shorter \cup {Append(s, t) : s \in {x \in shorter : Len(x) = n - 1}, t \in Tokens}

\* the platform calls generate_stream: an async generator object is created
StreamStart ==
    /\ kind = "tgi"
    /\ InputsAccepted
    /\ callOp' = "generate_stream"
    /\ callPc' = "created"
    /\ callResult' = <<>>
    /\ genState' = "Pending"
    /\ tokens' = <<>>
    /\ pos' = 0
    /\ delivered' = <<>>
    /\ conn' = "none"
    /\ cancelFrom' = "none"
    /\ deliveredAtCancel' = 0
    /\ UNCHANGED <<lastReqHandle, dispatched>>
    /\ UNCHANGED <<kind, gateVars, exitVars, batchVars, embedVars>>

\* first __anext__: the prompt is built and self.client.generate_stream(...) opened
StreamOpen ==
    /\ callOp = "generate_stream"
    /\ callPc = "created"
    /\ callPc' = "awaiting"
    /\ genState' = "Streaming"
    /\ conn' = "open"
    /\ \E ts \in SeqsUpTo(MaxTokens) : tokens' = ts
    /\ lastReqHandle' = handle
    /\ UNCHANGED <<pos, delivered, cancelFrom, deliveredAtCancel>>
    /\ UNCHANGED <<callOp, callResult, dispatched>>
    /\ UNCHANGED <<kind, gateVars, exitVars, batchVars, embedVars>>

\* one iteration of the async for: a token arrives and is yielded unless special
StreamPull ==
    /\ callOp = "generate_stream"
    /\ callPc = "awaiting"
    /\ pos < Len(tokens)
    /\ LET tok == tokens[pos + 1]
       IN IF Delivers(tok)
          THEN delivered' = Append(delivered, tok.text) /\ callPc' = "yielded"
          ELSE delivered' = delivered /\ callPc' = "awaiting"
    /\ pos' = pos + 1
    /\ UNCHANGED <<tokens, conn, genState, cancelFrom, deliveredAtCancel>>
    /\ UNCHANGED <<callOp, callResult, lastReqHandle, dispatched>>
    /\ UNCHANGED <<kind, gateVars, exitVars, batchVars, embedVars>>

\* the consumer asks for the next fragment: the generator resumes after the yield
StreamResume ==
    /\ callOp = "generate_stream"
    /\ callPc = "yielded"
    /\ callPc' = "awaiting"
    /\ UNCHANGED streamVars
    /\ UNCHANGED <<callOp, callResult, lastReqHandle, dispatched>>
    /\ UNCHANGED <<kind, gateVars, exitVars, batchVars, embedVars>>

\* the upstream stream closes: the async for ends and the generator returns
StreamEnd ==
    /\ callOp = "generate_stream"
    /\ callPc = "awaiting"
    /\ pos = Len(tokens)
    /\ genState' = "Completed"
    /\ conn' = "closed"
    /\ callPc' = "done"
    /\ UNCHANGED <<tokens, pos, delivered, cancelFrom, deliveredAtCancel>>
    /\ UNCHANGED <<callOp, callResult, lastReqHandle, dispatched>>
    /\ UNCHANGED <<kind, gateVars, exitVars, batchVars, embedVars>>

\* the upstream stream errors mid-flight: the exception leaves the generator
StreamError ==
    /\ callOp = "generate_stream"
    /\ callPc = "awaiting"
    /\ genState' = "Failed"
    /\ conn' = "closed"
    /\ callPc' = "done"
    /\ UNCHANGED <<tokens, pos, delivered, cancelFrom, deliveredAtCancel>>
    /\ UNCHANGED <<callOp, callResult, lastReqHandle, dispatched>>
    /\ UNCHANGED <<kind, gateVars, exitVars, batchVars, embedVars>>

\* the consumer closes the generator while it is suspended at "yield":
\* GeneratorExit leaves the async for, which does not close the iterator of
\* self.client.generate_stream(...); that iterator is only dropped
StreamCancel ==
    /\ callOp = "generate_stream"
    /\ callPc = "yielded"
    /\ cancelFrom' = genState
    /\ deliveredAtCancel' = Len(delivered)
    /\ genState' = "Cancelled"
    /\ callPc' = "closed"
    /\ UNCHANGED <<tokens, pos, delivered, conn>>
    /\ UNCHANGED <<callOp, callResult, lastReqHandle, dispatched>>
    /\ UNCHANGED <<kind, gateVars, exitVars, batchVars, embedVars>>

\* the dropped upstream iterator is finalized by the runtime at a later turn
\* of the event loop, which closes its connection
StreamFinalize ==
    /\ callOp = "generate_stream"
    /\ callPc = "closed"
    /\ conn = "open"
    /\ conn' = "closed"
    /\ UNCHANGED <<tokens, pos, delivered, genState, cancelFrom, deliveredAtCancel>>
    /\ UNCHANGED <<callOp, callPc, callResult, lastReqHandle, dispatched>>
    /\ UNCHANGED <<kind, gateVars, exitVars, batchVars, embedVars>>

\* the method call is over and its input slot is free again
CallFinish ==
    /\ \/ callOp \in {"embed", "generate"} /\ callPc \in {"returned", "failed"}
       \/ callOp = "generate_stream" /\ callPc \in {"done", "closed"} /\ conn = "closed"
    /\ callOp' = "none"
    /\ callPc' = "idle"
    /\ callResult' = <<>>
    /\ callIds' = <<>>
    /\ callInputs' = <<>>
    /\ posts' = 0
    /\ callStatus' = 0
    /\ tokens' = <<>>
    /\ pos' = 0
    /\ delivered' = <<>>
    /\ conn' = "none"
    /\ genState' = "Idle"
    /\ cancelFrom' = "none"
    /\ deliveredAtCancel' = 0
    /\ UNCHANGED <<embedPayloads, lastReqHandle, dispatched>>
    /\ UNCHANGED <<kind, gateVars, exitVars, batchVars>>

\* ------------------------------------------------------------ specification
Init ==
    /\ kind \in Kinds
    /\ gate = "start"
    /\ proc = "none"
    /\ exitCode = 0
    /\ portOpen = FALSE
    /\ handle = "None"
    /\ raisedCode = 0
    /\ phase = "entering"
    /\ owned = FALSE
    /\ sigSent = {}
    /\ exitCalls = 0
    /\ exitError = FALSE
    /\ exitOnDead = FALSE
    /\ failedSinceExit = 0
    /\ exitedWhileStarting = FALSE
    /\ portEverOpen = FALSE
    /\ readyCount = 0
    /\ probesAfterReady = 0
    /\ probes = 0
    /\ lastReqHandle = "none"
    /\ \E n \in 0..MaxData :
          data = IF kind = "tei" THEN Dataset(n) ELSE <<>>
    /\ \E b \in 1..MaxBatch :
          batchSize = IF kind = "tei" THEN b ELSE 1
    /\ cursor = 0
    /\ batch = <<>>
    /\ yielded = <<>>
    /\ genDone = FALSE
    /\ dispatched = 0
    /\ callOp = "none"
    /\ callPc = "idle"
    /\ callIds = <<>>
    /\ callInputs = <<>>
    /\ posts = 0
    /\ callStatus = 0
    /\ callResult = <<>>
    /\ embedPayloads = <<>>
    /\ tokens = <<>>
    /\ pos = 0
    /\ delivered = <<>>
    /\ conn = "none"
    /\ genState = "Idle"
    /\ cancelFrom = "none"
    /\ deliveredAtCancel = 0

Next ==
    \/ Spawn
    \/ SpawnFails
    \/ Connect
    \/ PollExit
    \/ Sleep
    \/ PortOpens
    \/ ProcExits
    \/ Exit
    \/ BatchAppend
    \/ BatchEnd
    \/ EmbedStart
    \/ EmbedPost
    \/ EmbedResponse
    \/ EmbedConnectError
    \/ GenerateStart
    \/ GenerateResponse
    \/ StreamStart
    \/ StreamOpen
    \/ StreamPull
    \/ StreamResume
    \/ StreamEnd
    \/ StreamError
    \/ StreamCancel
    \/ StreamFinalize
    \/ CallFinish

Spec == Init /\ [][Next]_vars

TypeOK ==
    /\ kind \in Kinds
    /\ gate \in {"start", "connect", "poll", "sleep", "returned", "raised", "oserror"}
    /\ proc \in {"none", "running", "exited"}
    /\ handle \in {"None", "Starting", "Ready", "Failed", "Terminated"}
    /\ phase \in {"entering", "serving", "built", "crashed", "exited"}
    /\ genState \in {"Idle", "Pending", "Streaming", "Completed", "Failed", "Cancelled"}
    /\ conn \in {"none", "open", "closed"}

\* ------------------------------------------------------------------ claims
RECURSIVE NonSpecialTexts(_)
NonSpecialTexts(ts) ==
    IF ts = <<>> THEN <<>>
    ELSE IF Head(ts).special THEN NonSpecialTexts(Tail(ts))
         ELSE <<Head(ts).text>> \o NonSpecialTexts(Tail(ts))

RECURSIVE Flatten(_)
Flatten(ss) == IF ss = <<>> THEN <<>> ELSE Head(ss) \o Flatten(Tail(ss))

IdsOf(items) == [i \in 1..Len(items) |-> items[i][1]]
CeilDiv(n, b) == (n + b - 1) \div b

\* C1: no upstream request (POST /embed, generate, generate_stream) is issued
\* against a handle that is not Ready: every request is issued after the gate
\* of __enter__ has returned successfully, never while the handle is Starting,
\* Failed or Terminated.
C1_RequestsOnlyWhenReady ==
    /\ lastReqHandle \in {"none", "Ready"}
    /\ callOp # "none" => (handle = "Ready" /\ gate = "returned" /\ readyCount >= 1)

C1_Witness ==
    /\ callOp = "generate_stream"
    /\ conn = "open"
    /\ lastReqHandle = "Ready"
    /\ probes >= 2

\* C2: when the subprocess exits with code E (0 included) before the port is
\* connectable, the gate raises a startup failure carrying exactly E at the
\* first failed probe after the exit; it never reports Ready and never probes
\* again after that probe.
C2_StartupFailureCarriesExitCode ==
    /\ gate = "raised" =>
          (proc = "exited" /\ raisedCode = exitCode /\ handle = "Failed"
           /\ phase = "crashed")
    /\ failedSinceExit <= 1
    /\ failedSinceExit = 1 => gate \in {"poll", "raised"}
    /\ exitedWhileStarting => handle \in {"Starting", "Failed"}

C2_Witness ==
    /\ gate = "raised"
    /\ exitedWhileStarting
    /\ failedSinceExit = 1
    /\ raisedCode = MaxCode
    /\ handle = "Failed"

\* C3: for an input of length N >= 1 and batch size B >= 1 embed_dataset issues
\* exactly ceil(N/B) embed calls, and the identifiers carried by the batches are
\* the input identifiers, each exactly once.
C3_BatchesCoverInput ==
    (genDone /\ Len(data) >= 1) =>
        /\ Len(yielded) = CeilDiv(Len(data), batchSize)
        /\ Flatten([i \in 1..Len(yielded) |-> IdsOf(yielded[i])]) = IdsOf(data)

\* C4: the gate turns the handle Ready exactly once and then returns; once the
\* handle is Ready no further TCP probe of the port is made.
C4_ReadyOnceNoReprobe ==
    /\ readyCount <= 1
    /\ probesAfterReady = 0
    /\ handle = "Ready" => (gate = "returned" /\ readyCount = 1 /\ portEverOpen)
    /\ gate = "returned" => handle \in {"Ready", "Terminated"}

C4_Witness ==
    /\ handle = "Ready"
    /\ readyCount = 1
    /\ probes >= 2
    /\ callOp = "embed"
    /\ callPc = "returned"

\* C5: when the consumer cancels generate_stream after the first fragment, the
\* upstream connection is closed as part of the cancellation and no further
\* fragment is yielded; Cancelled is entered only from Streaming.
C5_CancelClosesUpstream ==
    genState = "Cancelled" =>
        /\ conn = "closed"
        /\ Len(delivered) = deliveredAtCancel
        /\ cancelFrom = "Streaming"

\* C6: the fragments generate_stream delivers are exactly the texts of the
\* non-special upstream tokens consumed so far, in upstream order; the stream
\* completes when the upstream stream closes, and no special token is delivered.
C6_SpecialTokensFiltered ==
    callOp = "generate_stream" =>
        /\ delivered = NonSpecialTexts(SubSeq(tokens, 1, pos))
        /\ genState = "Completed" =>
              (pos = Len(tokens) /\ delivered = NonSpecialTexts(tokens))
        /\ \A i \in 1..Len(delivered) :
              \A t \in Tokens : t.special => delivered[i] # t.text

C6_Witness ==
    /\ genState = "Completed"
    /\ Len(tokens) = MaxTokens
    /\ \E i \in 1..Len(tokens) : tokens[i].special
    /\ Len(delivered) = MaxTokens - 1

\* C7: while the subprocess neither opens the port nor exits, the gate keeps
\* polling: the handle stays Starting, the gate neither returns nor raises, and
\* its next step is always possible.
C7_HangPollsForever ==
    (proc = "running" /\ ~portEverOpen) =>
        /\ handle = "Starting"
        /\ gate \in {"connect", "poll", "sleep"}
        /\ phase = "entering"
        /\ ENABLED (Connect \/ PollExit \/ Sleep)

C7_Witness ==
    /\ proc = "running"
    /\ ~portEverOpen
    /\ probes = MaxProbes
    /\ gate = "poll"
    /\ handle = "Starting"

C9_EmbedOnePostNoRetry ==
    /\ posts <= 1
    /\ callOp = "embed" =>
          /\ callPc = "post" => posts = 0
          /\ callPc \in {"await", "returned", "failed"} => posts = 1
          /\ RaisesForStatus(callStatus) => (callPc = "failed" /\ callResult = <<>>)
          /\ callPc = "returned" =>
                (callStatus = 200 /\ IdsOf(callResult) = callIds)
    /\ Len(embedPayloads) =
          IF callOp = "embed" /\ callPc = "post" THEN dispatched - 1 ELSE dispatched

C9_Witness ==
    /\ callOp = "embed"
    /\ callPc = "failed"
    /\ callStatus = 500
    /\ posts = 1
    /\ callResult = <<>>

\* C10: once the code that started a subprocess has finished, normally or with
\* an exception, the subprocess has exited or been sent a termination request,
\* or an object that will terminate it at teardown still holds it.
C10_TerminatedOnEveryExitPath ==
    gate \in {"returned", "raised", "oserror"} =>
        \/ proc # "running"
        \/ ExitSignal \in sigSent
        \/ (owned /\ phase = "serving")

====
